---- MODULE Spec2Model ----
(***************************************************************************)
(* Model of libpkg/plugins.c: the plugin registry `ph`, the loader         *)
(* pkg_plugins_init, by-name hook registration pkg_plugins_hook, the       *)
(* dispatcher pkg_plugins_hook_run and pkg_plugins_shutdown.               *)
(*                                                                         *)
(* A STAILQ head is modelled by its two pointers.  stqh_first is "NULL",   *)
(* "OK" (points at the first element of `hooks`) or "WILD" (indeterminate  *)
(* bytes that are no valid pointer).  stqh_last is "OK" (points at the     *)
(* slot a tail insertion has to write: stqh_first of an empty list, the    *)
(* next field of the last element otherwise) or "WILD" (any other value,   *)
(* NULL included: the store through it hits no list).                      *)
(* pkg_plugins_init obtains the descriptor from malloc and never runs      *)
(* STAILQ_INIT on phooks, so both pointers start with indeterminate        *)
(* values: every value a pointer can read as is a possible start.          *)
(*                                                                         *)
(* A dereference of a NULL or WILD pointer, and a call through a NULL      *)
(* function pointer, end the run in phase "fault".                         *)
(***************************************************************************)
EXTENDS Integers, Sequences, FiniteSets, TLC

\* ---------------------------------------------------------------- bounds
MaxModules == 2          \* longest PKG_CONFIG_PLUGINS list explored
MaxHooks == 3            \* most hook bindings explored, over all hook lists

\* ------------------------------------------------------ program constants
EPKG_OK == "EPKG_OK"
EPKG_END == "EPKG_END"
EPKG_FATAL == "EPKG_FATAL"
NONE == "NONE"           \* no value: no call made, no result produced

\* pkg_plugins_hook_t values used by the explored modules
Hooks == {"PRE_INSTALL", "POST_INSTALL"}
\* callback function pointers
Callbacks == {"cb"}
\* the hook a module's init asks for, when it asks for one
InitHooks == {"POST_INSTALL"}
\* values a module's init stores in PKG_PLUGINS_NAME
Names == {"A", "B"}
\* the values indeterminate pointer bytes are read as
FirstGarbage == {"NULL", "WILD"}
LastGarbage == {"WILD", "OK"}

Modules == 1..MaxModules

VARIABLES
    ph,        \* the registry: sequence of descriptors, STAILQ order
    mod,       \* per configured module: library handle, allocations, what init did
    phase,     \* where the host program is
    v,         \* number of PKG_CONFIG_PLUGINS entries pkg_config_list has returned
    sp,        \* pkg_plugins_shutdown's iterator p: index into ph, 0 for NULL
    initRet,   \* what pkg_plugins_init returned, NONE before it returns
    last,      \* the latest API call of the host and what it returned
    calls,     \* callbacks invoked by the latest step, in order
    closeLog   \* shutdown entry point calls, dlclose calls and frees, in order

vars == <<ph, mod, phase, v, sp, initRet, last, calls, closeLog>>

\* ------------------------------------------------------------ data model
\* struct plugins_hook
Binding(hook, callback) == [hook |-> hook, callback |-> callback]

\* PKG_PLUGINS_PLUGINFILE as snprintf builds it: plugdir "/" name ".so";
\* the configured name of the i-th entry is i
Pluginfile(i) == <<"plugdir", "/", i, ".so">>

\* struct pkg_plugins right after malloc and the fields[] loop: the fields
\* are NULL, lh is the module's handle, phooks holds whatever malloc returned
NewPlugin(i, gfirst, glast) ==
    [id |-> i, name |-> "NULL", file |-> <<>>,
     stqh_first |-> gfirst, stqh_last |-> glast, hooks |-> <<>>]

NoModule ==
    [lh |-> "unopened", nclose |-> 0, p |-> "none", sbuf |-> "none",
     init |-> NONE, sawfile |-> <<>>]

NoCall == [op |-> NONE, ret |-> NONE]

\* ------------------------------------------------------------ hook lists
\* STAILQ_INSERT_TAIL(&p->phooks, new, next): new->next = NULL;
\* *head->stqh_last = new; head->stqh_last = &new->next.  The store goes
\* through stqh_last; through &stqh_first it also repairs stqh_first.
STAILQ_INSERT_TAIL(p, new) ==
    IF p.stqh_last = "OK"
    THEN [p |-> [p EXCEPT !.hooks = Append(@, new),
                          !.stqh_first = IF p.hooks = <<>> THEN "OK" ELSE @],
          fault |-> FALSE]
    ELSE [p |-> p, fault |-> TRUE]

\* pkg_plugins_hook_register: calloc, fill, insert at the tail
pkg_plugins_hook_register(p, hook, callback, nomem) ==
    IF nomem
    THEN [p |-> p, ret |-> EPKG_FATAL, fault |-> FALSE]
    ELSE LET r == STAILQ_INSERT_TAIL(p, Binding(hook, callback))
         IN  [p |-> r.p, ret |-> IF r.fault THEN NONE ELSE EPKG_OK, fault |-> r.fault]

\* pkg_plugins_hook_list from the k-th element on, as pkg_plugins_hook_exec
\* uses it: the invocations made for `hook`, in list order
RECURSIVE ExecFrom(_, _, _, _)
ExecFrom(p, hook, open, k) ==
    IF k > Len(p.hooks) THEN <<>>
    ELSE (IF p.hooks[k].hook = hook
          THEN <<[p |-> p.id, k |-> k, hook |-> hook,
                  callback |-> p.hooks[k].callback, lhopen |-> open]>>
          ELSE <<>>) \o ExecFrom(p, hook, open, k + 1)

\* RECURSIVE helper: a sequence back to front
RECURSIVE Reverse(_)
Reverse(q) == IF q = <<>> THEN <<>> ELSE Append(Reverse(Tail(q)), Head(q))

\* pkg_plugins_hook_exec walking the hook list from its tail
pkg_plugins_hook_exec_backwards(p, hook, open) ==
    CASE p.stqh_first = "NULL" -> [calls |-> <<>>, fault |-> FALSE]
      [] p.stqh_first = "WILD" -> [calls |-> <<>>, fault |-> TRUE]
      [] OTHER -> [calls |-> Reverse(ExecFrom(p, hook, open, 1)), fault |-> FALSE]

\* pkg_plugins_hook_exec: STAILQ_FIRST reads stqh_first
pkg_plugins_hook_exec(p, hook, open) ==
    CASE p.stqh_first = "NULL" -> [calls |-> <<>>, fault |-> FALSE]
      [] p.stqh_first = "WILD" -> [calls |-> <<>>, fault |-> TRUE]
      [] OTHER -> [calls |-> ExecFrom(p, hook, open, 1), fault |-> FALSE]

\* pkg_plugins_hook_free: while (!STAILQ_EMPTY) free(STAILQ_FIRST)
pkg_plugins_hook_free(p) ==
    [fault |-> p.stqh_first = "WILD"]

\* -------------------------------------------------------------- registry
\* pkg_plugins_list over the whole registry: the descriptors it returns
pkg_plugins_list(reg) == [k \in 1..Len(reg) |-> reg[k].id]

\* the loop of pkg_plugins_hook from the k-th descriptor on; nomem is the
\* set of registry positions whose calloc fails
RECURSIVE HookFrom(_, _, _, _, _, _)
HookFrom(reg, pluginname, hook, callback, nomem, k) ==
    IF k > Len(reg) THEN [reg |-> reg, found |-> FALSE, fault |-> FALSE]
    ELSE IF reg[k].name = pluginname
    THEN LET r == pkg_plugins_hook_register(reg[k], hook, callback, k \in nomem)
         IN  IF r.fault THEN [reg |-> reg, found |-> TRUE, fault |-> TRUE]
             ELSE LET rest == HookFrom([reg EXCEPT ![k] = r.p], pluginname, hook,
                                       callback, nomem, k + 1)
                  IN  [rest EXCEPT !.found = TRUE]
    ELSE HookFrom(reg, pluginname, hook, callback, nomem, k + 1)

\* pkg_plugins_hook: register on every descriptor of that name
pkg_plugins_hook(reg, pluginname, hook, callback, nomem) ==
    LET r == HookFrom(reg, pluginname, hook, callback, nomem, 1)
    IN  [reg |-> r.reg, fault |-> r.fault,
         ret |-> IF r.fault THEN NONE
                 ELSE IF r.found THEN EPKG_OK ELSE EPKG_FATAL]

\* the loop of pkg_plugins_hook_run from the k-th descriptor on
RECURSIVE RunFrom(_, _, _, _)
RunFrom(reg, m, hook, k) ==
    IF k > Len(reg) THEN [calls |-> <<>>, fault |-> FALSE]
    ELSE LET r == pkg_plugins_hook_exec(reg[k], hook, m[reg[k].id].lh = "open")
         IN  IF r.fault THEN r
             ELSE LET rest == RunFrom(reg, m, hook, k + 1)
                  IN  [calls |-> r.calls \o rest.calls, fault |-> rest.fault]

\* pkg_plugins_hook_run
pkg_plugins_hook_run(reg, m, hook) ==
    LET r == RunFrom(reg, m, hook, 1)
    IN  [calls |-> r.calls, fault |-> r.fault,
         ret |-> IF r.fault THEN NONE ELSE EPKG_OK]

\* the positions of the descriptors of that name
Matches(reg, pluginname) == {k \in 1..Len(reg) : reg[k].name = pluginname}

RECURSIVE NumHooks(_)
NumHooks(reg) == IF reg = <<>> THEN 0 ELSE Len(Head(reg).hooks) + NumHooks(Tail(reg))

\* one more binding on every descriptor of that name stays within MaxHooks
Room(reg, pluginname) ==
    NumHooks(reg) + Cardinality(Matches(reg, pluginname)) <= MaxHooks

Init ==
    /\ ph = <<>>
    /\ mod = [i \in Modules |-> NoModule]
    /\ phase = "init"
    /\ v = 0
    /\ sp = 0
    /\ initRet = NONE
    /\ last = NoCall
    /\ calls = <<>>
    /\ closeLog = <<>>

\* ---------------------------------------------------------------- loader
\* the module's init(p): it reads PKG_PLUGINS_PLUGINFILE, stores its name
\* and, when req is a hook, calls pkg_plugins_hook(name, req, cb); the
\* registry it searches is ph, which does not hold p yet
InitFunc(reg, p, name, req, nomem) ==
    LET named == [p EXCEPT !.name = name]
        r == IF req = NONE THEN [reg |-> reg, ret |-> NONE, fault |-> FALSE]
             ELSE pkg_plugins_hook(reg, name, req, "cb", nomem)
    IN  [reg |-> r.reg, p |-> named, sawfile |-> p.file, reqret |-> r.ret,
         fault |-> r.fault]

\* the commit with STAILQ_INSERT_HEAD in place of STAILQ_INSERT_TAIL
InitCommit_head(reg, p) == <<p>> \o reg

\* init returned EPKG_OK: STAILQ_INSERT_TAIL(&ph, p, next)
InitCommit(reg, p) == Append(reg, p)

\* the discard without its dlclose
InitDiscard_noclose(m, i) == [m EXCEPT ![i].p = "freed"]

\* init returned something else: dlclose(p->lh); free(p)
InitDiscard(m, i) ==
    [m EXCEPT ![i].lh = "closed", ![i].nclose = @ + 1, ![i].p = "freed"]

\* one iteration of the while loop of pkg_plugins_init, for the entry i
\* malloc returned NULL: p->fields[0] = NULL stores through NULL
LoadNoMemory(i) ==
    /\ phase' = "fault"
    /\ UNCHANGED <<ph, mod, initRet, last>>

\* dlopen returned NULL: return EPKG_FATAL, p is not freed
LoadOpenFailed(i) ==
    /\ mod' = [mod EXCEPT ![i].p = "live"]
    /\ phase' = "failed"
    /\ initRet' = EPKG_FATAL
    /\ UNCHANGED <<ph, last>>

\* dlsym(p->lh, "init") returned NULL: two errors are emitted, the
\* a loader that gives the module up when dlsym finds no init: dlclose,
\* free, next configured name
LoadInitMissing_reject(i) ==
    /\ mod' = [mod EXCEPT ![i].p = "freed", ![i].lh = "closed",
                          ![i].nclose = 1]
    /\ phase' = phase
    /\ UNCHANGED <<ph, initRet, last>>

\* dlsym finds no init: pkg_emit_error twice, then pluginfile is set and
\* init_func(p) is called through NULL
LoadInitMissing(i) ==
    /\ mod' = [mod EXCEPT ![i].p = "live", ![i].lh = "open",
                          ![i].sbuf = "live", ![i].init = "NULLCALL"]
    /\ phase' = "fault"
    /\ last' = [op |-> "emit_error", ret |-> NONE]
    /\ UNCHANGED <<ph, initRet>>

\* pkg_plugins_set that leaves the field as it was
pkg_plugins_set_noop(p, key, str) == p

\* pkg_plugins_set(p, key, str): sbuf_set(&p->fields[key], str)
pkg_plugins_set(p, key, str) == [p EXCEPT ![key] = str]

\* init resolves and is called
LoadInit(i, gfirst, glast, name, req, nomem, ret) ==
    LET p0 == pkg_plugins_set(NewPlugin(i, gfirst, glast), "file", Pluginfile(i))
        r == InitFunc(ph, p0, name, req, nomem)
        m1 == [mod EXCEPT ![i].p = "live", ![i].lh = "open",
                          ![i].sbuf = "live", ![i].sawfile = r.sawfile,
                          ![i].init = IF r.fault THEN NONE ELSE ret]
    IN  /\ req # NONE => Room(ph, name)
        /\ IF r.fault
           THEN /\ ph' = r.reg
                /\ mod' = m1
                /\ phase' = "fault"
           ELSE IF ret = EPKG_OK
           THEN /\ ph' = InitCommit(r.reg, r.p)
                /\ mod' = m1
                /\ phase' = phase
           ELSE /\ ph' = r.reg
                /\ mod' = InitDiscard(m1, i)
                /\ phase' = phase
        /\ last' = IF req = NONE THEN last ELSE [op |-> "init_hook", ret |-> r.reqret]
        /\ UNCHANGED initRet

pkg_plugins_init_iter ==
    /\ phase = "init"
    /\ v < MaxModules
    /\ v' = v + 1
    /\ \/ LoadNoMemory(v + 1)
       \/ LoadOpenFailed(v + 1)
       \/ LoadInitMissing(v + 1)
       \/ \E gfirst \in FirstGarbage, glast \in LastGarbage,
             name \in Names, req \in {NONE} \cup InitHooks,
             ret \in {EPKG_OK, EPKG_FATAL} :
             \E nomem \in (IF req = NONE THEN {{}} ELSE SUBSET Matches(ph, name)) :
                LoadInit(v + 1, gfirst, glast, name, req, nomem, ret)
    /\ UNCHANGED <<sp, calls, closeLog>>

\* pkg_config_list has no further entry: return EPKG_OK
pkg_plugins_init_return ==
    /\ phase = "init"
    /\ phase' = "stable"
    /\ initRet' = EPKG_OK
    /\ UNCHANGED <<ph, mod, v, sp, last, calls, closeLog>>

\* ------------------------------------------------------ calls of the host
HostPhases == {"stable", "failed", "down"}
\* a host whose pkg_plugins_init failed registers no further hooks
HookPhases == {"stable", "down"}
HostNames == Names \cup {"Z"}

HostHook(pluginname, hook, callback, nomem) ==
    /\ phase \in HookPhases
    /\ Room(ph, pluginname)
    /\ LET r == pkg_plugins_hook(ph, pluginname, hook, callback, nomem)
       IN  /\ ph' = r.reg
           /\ phase' = IF r.fault THEN "fault" ELSE phase
           /\ last' = [op |-> "hook", ret |-> r.ret]
    /\ calls' = <<>>
    /\ UNCHANGED <<mod, v, sp, initRet, closeLog>>

HostHookRun(hook) ==
    /\ phase \in HostPhases
    /\ LET r == pkg_plugins_hook_run(ph, mod, hook)
       IN  /\ calls' = r.calls
           /\ phase' = IF r.fault THEN "fault" ELSE phase
           /\ last' = [op |-> "hook_run", ret |-> r.ret]
    /\ UNCHANGED <<ph, mod, v, sp, initRet, closeLog>>

HostList ==
    /\ phase \in HostPhases
    /\ last' = [op |-> "list", ret |-> EPKG_END]
    /\ calls' = <<>>
    /\ UNCHANGED <<ph, mod, phase, v, sp, initRet, closeLog>>

\* -------------------------------------------------------------- shutdown
\* dlclose(p->lh)
DlClose(m, i) == [m EXCEPT ![i].lh = "closed", ![i].nclose = @ + 1]

\* the loop body with dlclose moved inside the if (shutdown_func != NULL)
ShutdownOne_guarded(m, log, p, shutsym) ==
    IF shutsym
    THEN [m |-> DlClose(m, p.id),
          log |-> log \o <<<<"shutdown", p.id>>, <<"dlclose", p.id>>>>]
    ELSE [m |-> m, log |-> log]

\* the body of the while loop of pkg_plugins_shutdown for descriptor p,
\* after shutdown_func (if any) has returned: what is logged and closed
ShutdownOne(m, log, p, shutsym) ==
    [m |-> DlClose(m, p.id),
     log |-> log \o (IF shutsym THEN <<<<"shutdown", p.id>>>> ELSE <<>>)
                 \o <<<<"dlclose", p.id>>>>]

\* pkg_plugins_free with `if` in place of `while`: only the head is freed
pkg_plugins_free_first(reg, m, log) ==
    IF reg = <<>> THEN [reg |-> reg, m |-> m, log |-> log, fault |-> FALSE]
    ELSE LET p == Head(reg)
         IN  [reg |-> Tail(reg),
              m |-> [m EXCEPT ![p.id].sbuf = "freed", ![p.id].p = "freed"],
              log |-> Append(log, <<"free", p.id>>),
              fault |-> pkg_plugins_hook_free(p).fault]

\* pkg_plugins_free with do { } while (!STAILQ_EMPTY(&ph)): on an empty
\* registry the body runs once on STAILQ_FIRST(&ph) = NULL
RECURSIVE pkg_plugins_free_dowhile(_, _, _)
pkg_plugins_free_dowhile(reg, m, log) ==
    IF reg = <<>> THEN [reg |-> reg, m |-> m, log |-> log, fault |-> TRUE]
    ELSE LET p == Head(reg)
             m1 == [m EXCEPT ![p.id].sbuf = "freed"]
         IN  IF pkg_plugins_hook_free(p).fault
             THEN [reg |-> Tail(reg), m |-> m1, log |-> log, fault |-> TRUE]
             ELSE IF Tail(reg) = <<>>
             THEN [reg |-> <<>>, m |-> [m1 EXCEPT ![p.id].p = "freed"],
                   log |-> Append(log, <<"free", p.id>>), fault |-> FALSE]
             ELSE pkg_plugins_free_dowhile(Tail(reg),
                                           [m1 EXCEPT ![p.id].p = "freed"],
                                           Append(log, <<"free", p.id>>))

\* pkg_plugins_free: remove the head, delete its fields, free its hooks,
\* free it, until the registry is empty
RECURSIVE pkg_plugins_free(_, _, _)
pkg_plugins_free(reg, m, log) ==
    IF reg = <<>> THEN [reg |-> reg, m |-> m, log |-> log, fault |-> FALSE]
    ELSE LET p == Head(reg)
             m1 == [m EXCEPT ![p.id].sbuf = "freed"]
         IN  IF pkg_plugins_hook_free(p).fault
             THEN [reg |-> Tail(reg), m |-> m1, log |-> log, fault |-> TRUE]
             ELSE pkg_plugins_free(Tail(reg), [m1 EXCEPT ![p.id].p = "freed"],
                                   Append(log, <<"free", p.id>>))

\* the host calls pkg_plugins_shutdown: p = NULL
pkg_plugins_shutdown_call ==
    /\ phase \in HostPhases
    /\ phase' = "shutdown"
    /\ sp' = 0
    /\ closeLog' = <<>>
    /\ last' = [op |-> "shutdown", ret |-> NONE]
    /\ calls' = <<>>
    /\ UNCHANGED <<ph, mod, v, initRet>>

\* pkg_plugins_list returned the next descriptor: call its shutdown entry
\* point if dlsym finds one (shutsym), then dlclose.  re is what the entry
\* point does: nothing, or a call of pkg_plugins_hook_run(re, ...)
pkg_plugins_shutdown_iter ==
    /\ phase = "shutdown"
    /\ sp < Len(ph)
    /\ sp' = sp + 1
    /\ \E shutsym \in BOOLEAN :
       \E re \in (IF shutsym THEN {NONE} \cup Hooks ELSE {NONE}) :
          LET p == ph[sp + 1]
              r == IF re = NONE THEN [calls |-> <<>>, fault |-> FALSE]
                   ELSE pkg_plugins_hook_run(ph, mod, re)
              done == ShutdownOne(mod, closeLog, p, shutsym)
          IN  /\ calls' = r.calls
              /\ IF r.fault
                 THEN /\ phase' = "fault"
                      /\ closeLog' = Append(closeLog, <<"shutdown", p.id>>)
                      /\ mod' = mod
                 ELSE /\ phase' = phase
                      /\ closeLog' = done.log
                      /\ mod' = done.m
    /\ UNCHANGED <<ph, v, initRet, last>>

\* pkg_plugins_list returned EPKG_END: pkg_plugins_free(), return EPKG_OK
pkg_plugins_shutdown_free ==
    /\ phase = "shutdown"
    /\ sp = Len(ph)
    /\ LET r == pkg_plugins_free(ph, mod, closeLog)
       IN  /\ ph' = r.reg
           /\ mod' = r.m
           /\ closeLog' = r.log
           /\ phase' = IF r.fault THEN "fault" ELSE "down"
           /\ last' = [last EXCEPT !.ret = IF r.fault THEN NONE ELSE EPKG_OK]
    /\ sp' = 0
    /\ calls' = <<>>
    /\ UNCHANGED <<v, initRet>>

Next ==
    \/ pkg_plugins_init_iter
    \/ pkg_plugins_init_return
    \/ \E n \in HostNames, h \in Hooks, cb \in Callbacks :
          \E nomem \in SUBSET Matches(ph, n) : HostHook(n, h, cb, nomem)
    \/ \E h \in Hooks : HostHookRun(h)
    \/ HostList
    \/ pkg_plugins_shutdown_call
    \/ pkg_plugins_shutdown_iter
    \/ pkg_plugins_shutdown_free

Spec == Init /\ [][Next]_vars

\* ---------------------------------------------------------------- helpers
\* the configured entries pkg_plugins_init has handled, in configuration order
Handled == [i \in 1..v |-> i]
InitSucceeded(i) == mod[i].init = EPKG_OK
InitFailed(i) == mod[i].init = EPKG_FATAL
\* the descriptor ids held by the registry
Registered == {ph[k].id : k \in 1..Len(ph)}
\* the hook kinds on the list of the k-th descriptor, in list order
Kinds(k) == [j \in 1..Len(ph[k].hooks) |-> ph[k].hooks[j].hook]

C2_NoPartialRegistry ==
    phase = "failed" => /\ initRet = EPKG_FATAL
                        /\ ph = <<>>
                        /\ calls = <<>>

\* --------------------------------------------------------------- claim C3
\* C3: the dispatcher never invokes a hook binding whose owning module's
\* library handle has been closed, also when a shutdown entry point calls
\* pkg_plugins_hook_run while pkg_plugins_shutdown is running.
C3_NoDispatchOnClosedHandle ==
    \A c \in 1..Len(calls) : calls[c].lhopen

\* --------------------------------------------------------------- claim C4
\* C4: the callbacks of one pkg_plugins_hook_run are invoked in load order
\* of their modules and, within a module, in the order of the hook list,
\* which is registration order.
C4_DispatchOrder ==
    \A a, b \in 1..Len(calls) :
        a < b => \/ calls[a].p < calls[b].p
                 \/ calls[a].p = calls[b].p /\ calls[a].k < calls[b].k

\* A (post-install) and B (pre-install, post-install) loaded in that order:
\* dispatching post-install has invoked A's callback, then B's
C4_Witness ==
    /\ Len(ph) = 2
    /\ Kinds(1) = <<"POST_INSTALL">>
    /\ Kinds(2) = <<"PRE_INSTALL", "POST_INSTALL">>
    /\ last = [op |-> "hook_run", ret |-> EPKG_OK]
    /\ Len(calls) = 2
    /\ calls[1].p = ph[1].id /\ calls[1].k = 1
    /\ calls[2].p = ph[2].id /\ calls[2].k = 2

\* --------------------------------------------------------------- claim C5
\* the bindings of kind `hook` in the registry, as (descriptor, position)
MatchingBindings(reg, hook) ==
    UNION {{<<reg[n].id, k>> : k \in {j \in 1..Len(reg[n].hooks) :
                                         reg[n].hooks[j].hook = hook}} :
           n \in 1..Len(reg)}
\* the bindings the latest step invoked
Invoked == {<<calls[c].p, calls[c].k>> : c \in 1..Len(calls)}

\* C5: pkg_plugins_hook_run(hook) invokes every binding of that kind in
\* the registry exactly once and no other binding, and returns EPKG_OK.
C5_DispatchAllMatchingOnce ==
    [][\A h \in Hooks :
          HostHookRun(h) => /\ last'.ret = EPKG_OK
                            /\ Invoked' = MatchingBindings(ph, h)
                            /\ Len(calls') = Cardinality(Invoked')]_vars

\* --------------------------------------------------------------- claim C6
\* C6: with no allocation failing, pkg_plugins_hook against a name held by
\* exactly two registered modules returns EPKG_OK and appends the binding
\* to both hook lists; against a name no registered module holds it
\* returns EPKG_FATAL and leaves the registry as it was.
C6_HookByName ==
    [][\A n \in HostNames, h \in Hooks, cb \in Callbacks :
          HostHook(n, h, cb, {}) =>
              /\ Cardinality(Matches(ph, n)) = 2 =>
                     /\ last'.ret = EPKG_OK
                     /\ \A k \in Matches(ph, n) :
                            ph'[k].hooks = Append(ph[k].hooks, Binding(h, cb))
              /\ Matches(ph, n) = {} =>
                     /\ last'.ret = EPKG_FATAL
                     /\ ph' = ph]_vars

\* --------------------------------------------------------------- claim C7
\* C7: a hook registration a module makes during its own init succeeds
\* (no allocation fails on that path) and lands on the module's own
\* descriptor, so once the module is committed its hook list holds it.
C7_InitTimeRegistration ==
    (last.op = "init_hook" /\ phase # "fault") =>
        /\ last.ret = EPKG_OK
        /\ InitSucceeded(v) =>
               \E k \in 1..Len(ph) :
                   /\ ph[k].id = v
                   /\ \E j \in 1..Len(ph[k].hooks) : ph[k].hooks[j].hook \in InitHooks

\* --------------------------------------------------------------- claim C8
\* C8: after pkg_plugins_shutdown has returned the registry is empty:
\* pkg_plugins_list yields nothing and a pkg_plugins_hook_run of any kind
\* invokes no callback.
C8_EmptyAfterShutdown ==
    phase = "down" => /\ pkg_plugins_list(ph) = <<>>
                      /\ calls = <<>>

\* a module was loaded, shut down and freed, and a dispatch ran afterwards
C8_Witness ==
    /\ phase = "down"
    /\ last = [op |-> "hook_run", ret |-> EPKG_OK]
    /\ \E i \in Modules : InitSucceeded(i) /\ mod[i].p = "freed"

\* --------------------------------------------------------------- claim C9
IsClose(e) == e[1] = "dlclose"
\* the handles pkg_plugins_shutdown has closed so far, in order
Closed == [k \in 1..Len(SelectSeq(closeLog, IsClose)) |->
              SelectSeq(closeLog, IsClose)[k][2]]

\* C9: pkg_plugins_shutdown walks the registry in order; for each module
\* the shutdown entry point, if called, is directly followed by the
\* dlclose of that module's handle; no descriptor is freed while the walk
\* is under way; when it returns every committed module's handle has been
\* closed exactly once.
C9_ShutdownOrder ==
    /\ \A i \in Modules : mod[i].nclose <= 1
    /\ phase = "shutdown" =>
          /\ Closed = [k \in 1..sp |-> ph[k].id]
          /\ \A k \in 1..Len(ph) :
                /\ mod[ph[k].id].p = "live"
                /\ mod[ph[k].id].lh = IF k <= sp THEN "closed" ELSE "open"
          /\ \A e \in 1..Len(closeLog) :
                /\ closeLog[e][1] # "free"
                /\ closeLog[e][1] = "shutdown" =>
                      /\ e < Len(closeLog)
                      /\ closeLog[e + 1] = <<"dlclose", closeLog[e][2]>>
    /\ phase = "down" =>
          \A i \in Modules :
              InitSucceeded(i) => mod[i].nclose = 1 /\ mod[i].lh = "closed"

\* two modules, the first with a shutdown entry point, the second without,
\* have been shut down and freed
C9_Witness ==
    /\ phase = "down"
    /\ closeLog = <<<<"shutdown", 1>>, <<"dlclose", 1>>, <<"dlclose", 2>>,
                    <<"free", 1>>, <<"free", 2>>>>

\* -------------------------------------------------------------- claim C10
\* C10: whenever pkg_plugins_init has moved on to the next configured
\* name or has returned, every handle it opened is held by a descriptor
\* in the registry or has been closed.
C10_NoHalfOpenHandle ==
    phase \in {"init", "stable", "failed"} =>
        \A i \in Modules : mod[i].lh = "open" => i \in Registered

\* one module failed init and was closed, another one is committed and open
C10_Witness ==
    /\ phase \in {"init", "stable"}
    /\ \E i \in Modules : InitFailed(i) /\ mod[i].lh = "closed"
    /\ \E j \in Modules : InitSucceeded(j) /\ mod[j].lh = "open" /\ j \in Registered

\* -------------------------------------------------------------- claim C11
\* C11: a failure that is local to one module (its library opened, but its
\* init was not found or did not return EPKG_OK) never aborts the load:
\* the module's handle is closed, its descriptor is not in the registry,
\* the loader goes on, and pkg_plugins_init ends with EPKG_FATAL only at a
\* module whose library did not open.
C11_ModuleLocalFailureDoesNotAbort ==
    /\ \A i \in Modules :
          (mod[i].lh # "unopened" /\ mod[i].init \notin {NONE, EPKG_OK}) =>
              /\ mod[i].lh = "closed"
              /\ i \notin Registered
    /\ phase = "stable" => initRet = EPKG_OK
    /\ (phase = "failed" \/ initRet = EPKG_FATAL) => mod[v].lh = "unopened"

\* -------------------------------------------------------------- claim C12
\* the registry holds the same descriptors, each with the bindings it had
SameDescriptorsAndBindings ==
    /\ pkg_plugins_list(ph') = pkg_plugins_list(ph)
    /\ \A k \in 1..Len(ph) :
          /\ ph'[k].name = ph[k].name
          /\ ph'[k].file = ph[k].file
          /\ Len(ph'[k].hooks) >= Len(ph[k].hooks)
          /\ SubSeq(ph'[k].hooks, 1, Len(ph[k].hooks)) = ph[k].hooks

\* C12: a pkg_plugins_hook in which the allocation of a binding fails does
\* not return EPKG_OK, and it leaves every descriptor and every binding
\* that was there before as it was.
C12_AllocationFailureReported ==
    [][\A n \in HostNames, h \in Hooks, cb \in Callbacks :
          \A nomem \in SUBSET Matches(ph, n) :
              (nomem # {} /\ HostHook(n, h, cb, nomem) /\ phase' # "fault") =>
                  /\ last'.ret # EPKG_OK
                  /\ SameDescriptorsAndBindings]_vars

\* -------------------------------------------------------------- claim C13
\* C13: pkg_plugins_hook_run of a kind no binding in the registry has,
\* whatever the number of modules in the registry, invokes no callback,
\* leaves the registry as it was and returns EPKG_OK.
C13_DispatchWithoutBindings ==
    [][\A h \in Hooks :
          (HostHookRun(h) /\ MatchingBindings(ph, h) = {}) =>
              /\ calls' = <<>>
              /\ ph' = ph /\ mod' = mod
              /\ phase' = phase
              /\ last'.ret = EPKG_OK]_vars

\* -------------------------------------------------------------- claim C14
\* C14: a pkg_plugins_shutdown that finds the registry empty is a no-op:
\* from its call to its return no shutdown entry point is invoked, no
\* handle is closed (none a second time), nothing is freed, and it
\* returns EPKG_OK.
C14_ShutdownOfEmptyRegistry ==
    [][(phase = "shutdown" /\ ph = <<>>) =>
          /\ phase' = "down"
          /\ last' = [op |-> "shutdown", ret |-> EPKG_OK]
          /\ closeLog = <<>> /\ closeLog' = <<>>
          /\ mod' = mod
          /\ ph' = <<>>
          /\ calls' = <<>>]_vars

\* a module was shut down and freed by an earlier pkg_plugins_shutdown, and
\* a later pkg_plugins_shutdown has returned
C14_Witness ==
    /\ phase = "down"
    /\ last = [op |-> "shutdown", ret |-> EPKG_OK]
    /\ closeLog = <<>>
    /\ \E i \in Modules :
          InitSucceeded(i) /\ mod[i].p = "freed" /\ mod[i].nclose = 1

C16_PluginfileBeforeInit ==
    /\ \A i \in Modules :
          mod[i].init \in {EPKG_OK, EPKG_FATAL} =>
              mod[i].sawfile = <<"plugdir", "/", i, ".so">>
    /\ \A k \in 1..Len(ph) : ph[k].file = <<"plugdir", "/", ph[k].id, ".so">>

\* one module's init read its plugin file and failed, another's read it and
\* the module is committed
C16_Witness ==
    /\ \E i \in Modules : InitFailed(i) /\ mod[i].sawfile = Pluginfile(i)
    /\ \E k \in 1..Len(ph) : mod[ph[k].id].sawfile = Pluginfile(ph[k].id)

\* -------------------------------------------------------------- claim C17
\* C17: every descriptor in the registry has an initialised hook list: its
\* stqh_last points to the end of the list, and while it holds no binding
\* its stqh_first is NULL.
C17_HookListInitialised ==
    \A k \in 1..Len(ph) :
        /\ ph[k].stqh_last = "OK"
        /\ ph[k].hooks = <<>> => ph[k].stqh_first = "NULL"

\* -------------------------------------------------------------- claim C18
\* C18: once pkg_plugins_init has left a configured module (it went on to
\* the next name or returned), the descriptor allocated for the module is
\* in the registry, or the descriptor and its field strings are released.
C18_CommittedOrReleased ==
    phase \in {"init", "stable", "failed"} =>
        \A i \in 1..v :
            \/ i \in Registered
            \/ mod[i].p # "live" /\ mod[i].sbuf # "live"

\* -------------------------------------------------------------- claim C19
\* C19: between pkg_plugins_init and pkg_plugins_shutdown the registry only
\* grows at the tails of hook lists: a pkg_plugins_hook (no allocation
\* failing) appends exactly one binding to the hook list of every
\* descriptor of that name and leaves the other descriptors as they were;
\* pkg_plugins_hook_run and pkg_plugins_list leave the registry as it was;
\* none of the three adds, removes or reorders a descriptor.
C19_RegistryAppendOnly ==
    [][phase = "stable" =>
          /\ \A n \in HostNames, h \in Hooks, cb \in Callbacks :
                HostHook(n, h, cb, {}) =>
                    /\ pkg_plugins_list(ph') = pkg_plugins_list(ph)
                    /\ \A k \in 1..Len(ph) :
                          IF k \in Matches(ph, n)
                          THEN /\ ph'[k].name = ph[k].name
                               /\ ph'[k].hooks = Append(ph[k].hooks, Binding(h, cb))
                          ELSE ph'[k] = ph[k]
          /\ (HostList \/ \E h \in Hooks : HostHookRun(h)) => ph' = ph]_vars
====
